---- MODULE Spec2Model ----
(***************************************************************************)
(* A model of the bracket template engine: the parser's token loop         *)
(* (src/src/parser/mod.rs), the path parser (src/src/parser/path.rs), the  *)
(* tree (src/src/lexer/ast.rs) and the renderer (src/src/render.rs).       *)
(*                                                                         *)
(* Strings are sequences of one-character strings, spans are half-open     *)
(* byte ranges [start, end) into the source, and an Option is a sequence   *)
(* of length zero (None) or one (Some).                                    *)
(***************************************************************************)
EXTENDS Integers, Sequences, FiniteSets, TLC

VARIABLES lexer, parser, render, printed, maps, assertion, paths

vars == <<lexer, parser, render, printed, maps, assertion, paths>>

\* The longest token stream the lexer produces for a source it is free to
\* choose; the named templates below are lexed whole.
MaxTokens == 5

\* The longest sequence of operations on the maps of a registry.
MaxOps == 3

\* The longest token stream handed to the path parser on its own.
MaxPathTokens == 4

\* The most arguments of a helper's call, and the largest bound of the
\* range its arity is asserted to lie in.
MaxArity == 3

----------------------------------------------------------------------------
(* Options, strings, spans *)

None == <<>>

Some(x) == <<x>>

IsSome(o) == Len(o) = 1

Unwrap(o) == o[1]

Span(a, b) == [start |-> a, end |-> b]

\* &s[a..b]
Slice(s, a, b) == SubSeq(s, a + 1, b)

SpanStr(source, span) == Slice(source, span.start, span.end)

IsWhitespace(c) == c \in {" ", "\n", "\t"}

RECURSIVE TrimStart(_)
TrimStart(s) ==
    IF s # <<>> /\ IsWhitespace(Head(s)) THEN TrimStart(Tail(s)) ELSE s

RECURSIVE TrimEnd(_)
TrimEnd(s) ==
    IF s # <<>> /\ IsWhitespace(s[Len(s)])
    THEN TrimEnd(SubSeq(s, 1, Len(s) - 1))
    ELSE s

StartsWith(s, pre) == Len(s) >= Len(pre) /\ SubSeq(s, 1, Len(pre)) = pre

EndsWith(s, suf) ==
    Len(s) >= Len(suf) /\ SubSeq(s, Len(s) - Len(suf) + 1, Len(s)) = suf

----------------------------------------------------------------------------
(* Lexemes *)

WHITESPACE == <<"~">>

Foo == <<"f", "o", "o">>

Bar == <<"b", "a", "r">>

X == <<"x">>

U == <<"u">>

NameKey == <<"n">>

With == <<"w", "i", "t", "h">>

Log == <<"l", "o", "g">>

This == <<"t", "h", "i", "s">>

AtRoot == <<"@", "r", "o", "o", "t">>

AtIndex == <<"@", "i">>

Tok(cat, lex, s) == [cat |-> cat, lex |-> lex, s |-> s]

TText(s) == Tok("Block", "Text", s)

TNewline == Tok("Block", "Newline", <<"\n">>)

TStatement == Tok("Block", "StartStatement", <<"{", "{">>)

TStatementTrim == Tok("Block", "StartStatement", <<"{", "{", "~">>)

TStatementRaw == Tok("Block", "StartStatement", <<"{", "{", "{">>)

TEnd == Tok("Parameters", "End", <<"}", "}">>)

TEndTrim == Tok("Parameters", "End", <<"~", "}", "}">>)

TEndRaw == Tok("Parameters", "End", <<"}", "}", "}">>)

TBlockScope == Tok("Block", "StartBlockScope", <<"{", "{", "#">>)

TBlockScopeTrim == Tok("Block", "StartBlockScope", <<"{", "{", "~", "#">>)

TEndBlock(name) ==
    Tok("Block", "EndBlockScope", <<"{", "{", "/">> \o name \o <<"}", "}">>)

TEndBlockTrim(name) ==
    Tok("Block", "EndBlockScope",
        <<"{", "{", "/">> \o name \o <<"~", "}", "}">>)

TRawBlock ==
    Tok("Block", "StartRawBlock",
        <<"{", "{", "{", "{", "r", "}", "}", "}", "}">>)

TRawBlockEnd ==
    Tok("RawBlock", "End", <<"{", "{", "{", "{", "/", "r", "}", "}", "}", "}">>)

TRawComment == Tok("Block", "StartRawComment", <<"{", "{", "!", "-", "-">>)

TRawCommentEnd == Tok("RawComment", "End", <<"-", "-", "}", "}">>)

TRawStatement == Tok("Block", "StartRawStatement", <<"\\", "{", "{">>)

TRawStatementEnd == Tok("RawStatement", "End", <<"}", "}">>)

TComment == Tok("Block", "StartComment", <<"{", "{", "!">>)

TCommentEnd == Tok("Comment", "End", <<"}", "}">>)

TIdent(name) == Tok("Parameters", "Identifier", name)

TDelim == Tok("Parameters", "PathDelimiter", <<".">>)

TThis == Tok("Parameters", "ExplicitThisKeyword", This)

TDotSlash == Tok("Parameters", "ExplicitThisDotSlash", <<".", "/">>)

TParent == Tok("Parameters", "ParentRef", <<".", ".", "/">>)

TLocal(name) == Tok("Parameters", "LocalIdentifier", name)

TSpace == Tok("Parameters", "WhiteSpace", <<" ">>)

TParamNewline == Tok("Parameters", "Newline", <<"\n">>)

TQuote == Tok("Parameters", "StringLiteral", <<"\"">>)

TStrText(s) == Tok("StringLiteral", "Text", s)

TStrNewline == Tok("StringLiteral", "Newline", <<"\n">>)

TStrEnd == Tok("StringLiteral", "End", <<"\"">>)

TXTag == <<"{", "{", "x", "}", "}">>

----------------------------------------------------------------------------
(* The lexer: a token stream over the source, by mode (spec.md 4.A).  The   *)
(* lexer's code is not part of the sources at hand; what the parser needs  *)
(* of it is the order in which token kinds can follow one another.         *)

NextMode(mode, t) ==
    CASE t.cat = "Block" /\ t.lex = "StartRawBlock" -> "RawBlock"
      [] t.cat = "Block" /\ t.lex = "StartRawComment" -> "RawComment"
      [] t.cat = "Block" /\ t.lex = "StartRawStatement" -> "RawStatement"
      [] t.cat = "Block" /\ t.lex = "StartComment" -> "Comment"
      [] t.cat = "Block" /\ t.lex \in {"StartBlockScope", "StartStatement"}
            -> "Parameters"
      [] t.cat = "Parameters" /\ t.lex = "End" -> "Block"
      [] t.cat = "Parameters" /\ t.lex = "StringLiteral" -> "StringLiteral"
      [] t.cat = "StringLiteral" /\ t.lex = "End" -> "Parameters"
      [] t.cat \in {"RawBlock", "RawComment", "RawStatement", "Comment"}
            /\ t.lex = "End" -> "Block"
      [] OTHER -> mode

\* The tokens the lexer may produce next in `mode`; `raw` says that the tag
\* being lexed was opened with three braces.
FreeTokens(mode, raw) ==
    CASE mode = "Block" ->
            {TText(<<"a">>), TNewline, TRawBlock, TRawComment, TRawStatement,
             TComment, TBlockScope, TEndBlock(Foo), TEndBlock(Bar),
             TStatement, TStatementRaw}
      [] mode = "Parameters" ->
            {TIdent(Foo), TDelim, TThis, TDotSlash, TParent, TLocal(AtIndex),
             TSpace, TParamNewline, TQuote, IF raw THEN TEndRaw ELSE TEnd}
      [] mode = "StringLiteral" -> {TStrText(<<"a">>), TStrNewline, TStrEnd}
      [] mode = "RawBlock" ->
            {Tok("RawBlock", "Text", <<"a">>),
             Tok("RawBlock", "Newline", <<"\n">>), TRawBlockEnd}
      [] mode = "RawComment" ->
            {Tok("RawComment", "Text", <<"a">>), TRawCommentEnd}
      [] mode = "RawStatement" ->
            {Tok("RawStatement", "Text", <<"a">>), TRawStatementEnd}
      [] mode = "Comment" ->
            {Tok("Comment", "Text", <<"a">>),
             Tok("Comment", "Newline", <<"\n">>), TCommentEnd}

\* Token::is_text: text and newline tokens of the block modes.
is_text(t) ==
    /\ t.cat \in {"Block", "RawBlock", "RawComment", "RawStatement", "Comment"}
    /\ t.lex \in {"Text", "Newline"}

\* Token::is_newline: a newline of a string literal is not one (the parser
\* reports it as an error itself).
is_newline(t) == t.cat # "StringLiteral" /\ t.lex = "Newline"

----------------------------------------------------------------------------
(* Paths: src/src/parser/path.rs over the cached parameter tokens, each    *)
(* [lex, span].                                                            *)

is_path_component(lex) ==
    lex \in {"ExplicitThisKeyword", "ExplicitThisDotSlash", "ParentRef",
             "Identifier", "LocalIdentifier", "PathDelimiter", "ArrayAccess"}

component_type(lex) ==
    CASE lex = "ExplicitThisKeyword" -> "ThisKeyword"
      [] lex = "ExplicitThisDotSlash" -> "ThisDotSlash"
      [] lex = "ParentRef" -> "Parent"
      [] lex = "Identifier" -> "Identifier"
      [] lex = "LocalIdentifier" -> "LocalIdentifier"
      [] lex = "PathDelimiter" -> "Delimiter"
      [] lex = "ArrayAccess" -> "ArrayAccess"

Component(kind, span) == [kind |-> kind, span |-> span]

NewPath ==
    [components |-> <<>>, root |-> FALSE, explicit |-> FALSE, parents |-> 0]

component_is_root(source, c) ==
    c.kind = "LocalIdentifier" /\ SpanStr(source, c.span) = AtRoot

component_is_explicit(c) == c.kind \in {"ThisKeyword", "ThisDotSlash"}

component_is_local(c) == c.kind = "LocalIdentifier"

component_is_explicit_dot_slash(c) == c.kind = "ThisDotSlash"

PathOk(path, next) ==
    [err |-> None, path |-> path, next |-> next, byte |-> None]

PathErr(kind, byte) ==
    [err |-> Some(kind), path |-> None, next |-> 0, byte |-> Some(byte)]

\* `panic!("Expected parameter token")`
PathPanic == PathErr("panic", 0)

\* parents(): the index of the first token after `i` that is no `../`.
\* parents() that stops after the first `../`.
parents_end_once(toks, i) == i

RECURSIVE parents_end(_, _)
parents_end(toks, i) ==
    IF i <= Len(toks) /\ toks[i].lex = "ParentRef"
    THEN parents_end(toks, i + 1)
    ELSE i

\* components() without the rejection of `@name`.
RECURSIVE components_accept_local(_, _, _, _)
components_accept_local(toks, j, path, wants_delimiter) ==
    IF j > Len(toks) THEN PathOk(Some(path), j)
    ELSE LET lex == toks[j].lex
             span == toks[j].span
         IN IF ~is_path_component(lex) THEN PathOk(Some(path), j)
            ELSE IF lex \in {"ExplicitThisKeyword", "ExplicitThisDotSlash"}
            THEN PathErr("UnexpectedPathExplicitThis", span.start)
            ELSE IF lex = "ParentRef"
            THEN PathErr("UnexpectedPathParent", span.start)
            ELSE IF wants_delimiter
            THEN IF lex = "PathDelimiter"
                 THEN components_accept_local(toks, j + 1, path, FALSE)
                 ELSE PathErr("ExpectedPathDelimiter", span.start)
            ELSE IF lex = "PathDelimiter"
            THEN PathErr("UnexpectedPathDelimiter", span.start)
            ELSE components_accept_local(toks, j + 1,
                    [path EXCEPT !.components =
                        Append(@, Component(component_type(lex), span))],
                    TRUE)

\* components(): the tokens from `j` on, after the first component.
RECURSIVE components(_, _, _, _)
components(toks, j, path, wants_delimiter) ==
    IF j > Len(toks) THEN PathOk(Some(path), j)
    ELSE LET lex == toks[j].lex
             span == toks[j].span
         IN IF ~is_path_component(lex) THEN PathOk(Some(path), j)
            ELSE IF lex \in {"ExplicitThisKeyword", "ExplicitThisDotSlash"}
            THEN PathErr("UnexpectedPathExplicitThis", span.start)
            ELSE IF lex = "ParentRef"
            THEN PathErr("UnexpectedPathParent", span.start)
            ELSE IF lex = "LocalIdentifier"
            THEN PathErr("UnexpectedPathLocal", span.start)
            ELSE IF wants_delimiter
            THEN IF lex = "PathDelimiter"
                 THEN components(toks, j + 1, path, FALSE)
                 ELSE PathErr("ExpectedPathDelimiter", span.start)
            ELSE IF lex = "PathDelimiter"
            THEN PathErr("UnexpectedPathDelimiter", span.start)
            ELSE components(toks, j + 1,
                    [path EXCEPT !.components =
                        Append(@, Component(component_type(lex), span))],
                    TRUE)

\* The while loop of parse(): tokens that are no path component are passed
\* over; the first component found starts the path.
RECURSIVE path_first(_, _, _, _)
path_first(source, toks, j, path) ==
    IF j > Len(toks) THEN PathOk(None, j)
    ELSE LET lex == toks[j].lex
             span == toks[j].span
             c == Component(component_type(lex), span)
             p1 == [path EXCEPT
                      !.root = @ \/ (path.components = <<>>
                                     /\ component_is_root(source, c)),
                      !.explicit = @ \/ component_is_explicit(c)]
         IN IF toks[j].cat # "Parameters" THEN PathPanic
            ELSE IF ~is_path_component(lex)
            THEN path_first(source, toks, j + 1, path)
            ELSE IF component_is_local(c) /\ path.parents > 0
            THEN PathErr("UnexpectedPathParentWithLocal", span.start)
            ELSE IF component_is_explicit(c) /\ path.parents > 0
            THEN PathErr("UnexpectedPathParentWithExplicit", span.start)
            ELSE components(toks, j + 1,
                    [p1 EXCEPT !.components = Append(@, c)],
                    ~component_is_explicit_dot_slash(c))

\* parse(): the path that starts at token `i`.
path_parse(source, toks, i, byte) ==
    LET lex == toks[i].lex
    IN IF lex = "PathDelimiter"
       THEN PathErr("UnexpectedPathDelimiter", byte)
       ELSE IF lex = "ParentRef"
       THEN LET e == parents_end(toks, i + 1)
            IN path_first(source, toks, e,
                          [NewPath EXCEPT !.parents = e - i])
       ELSE path_first(source, toks, i, NewPath)

\* Path::is_simple
is_simple(path) ==
    Len(path.components) = 1 /\ path.components[1].kind = "Identifier"

\* Path::as_str: the source from the first component to the last.
path_as_str(source, path) ==
    IF path.components = <<>> THEN <<>>
    ELSE Slice(source, path.components[1].span.start,
               path.components[Len(path.components)].span.end)

----------------------------------------------------------------------------
(* Calls: the statement parser (spec.md 4.B/4.C, "Statement parsing") that  *)
(* turns the cached parameter tokens of one tag into a Call.               *)

ParamTok(lex, sub, span) ==
    [cat |-> "Parameters", lex |-> lex, sub |-> sub, span |-> span]

RECURSIVE skip_whitespace(_, _)
skip_whitespace(toks, i) ==
    IF i <= Len(toks) /\ toks[i].lex = "WhiteSpace"
    THEN skip_whitespace(toks, i + 1)
    ELSE i

\* The index of the StringLiteral End token at or after `i`, or Len + 1.
RECURSIVE string_end(_, _)
string_end(toks, i) ==
    IF i > Len(toks) \/ (toks[i].lex = "StringToken" /\ toks[i].sub = "End")
    THEN i
    ELSE string_end(toks, i + 1)

JsonString(s) == [t |-> "String", s |-> s]

JsonNull == [t |-> "Null"]

JsonObject(f) == [t |-> "Object", f |-> f]

ArgsOk(args) == [err |-> None, args |-> args, byte |-> None]

ArgsErr(kind, byte) == [err |-> Some(kind), args |-> <<>>, byte |-> Some(byte)]

\* The positional arguments from token `i` on: paths and string literals.
RECURSIVE arguments_parse(_, _, _, _)
arguments_parse(source, toks, i, args) ==
    LET j == skip_whitespace(toks, i)
    IN IF j > Len(toks) THEN ArgsOk(args)
       ELSE IF is_path_component(toks[j].lex)
       THEN LET r == path_parse(source, toks, j, toks[j].span.start)
            IN IF IsSome(r.err) THEN ArgsErr(Unwrap(r.err), Unwrap(r.byte))
               ELSE IF ~IsSome(r.path)
               THEN ArgsErr("EmptyPath", toks[j].span.start)
               ELSE arguments_parse(source, toks, r.next,
                        Append(args, [kind |-> "Path", path |-> Unwrap(r.path)]))
       ELSE IF toks[j].lex = "StringLiteral"
       THEN LET e == string_end(toks, j + 1)
            IN IF e > Len(toks)
               THEN ArgsErr("TokenDoubleQuoteLiteral", toks[j].span.start)
               ELSE arguments_parse(source, toks, e + 1,
                        Append(args,
                            [kind |-> "Json",
                             value |-> JsonString(Slice(source,
                                 toks[j].span.end, toks[e].span.start))]))
       ELSE ArgsErr("TokenParameterPath", toks[j].span.start)

NewCall(partial, open, close) ==
    [partial |-> partial, open |-> open, close |-> close, target |-> NewPath,
     arguments |-> <<>>, hash |-> <<>>, escaped |-> TRUE]

StatementOk(call) == [err |-> None, call |-> Some(call), byte |-> None]

StatementErr(kind, byte) ==
    [err |-> Some(kind), call |-> None, byte |-> Some(byte)]

\* statement::parse
statement_parse(source, params) ==
    LET toks == params.tokens
        i == skip_whitespace(toks, 1)
        partial == i <= Len(toks) /\ toks[i].lex = "Partial"
        j == IF partial THEN skip_whitespace(toks, i + 1) ELSE i
        escaped ==
            ~StartsWith(SpanStr(source, params.start), <<"{", "{", "{">>)
    IN IF j > Len(toks) THEN StatementErr("EmptyStatement", params.start.end)
       ELSE IF ~is_path_component(toks[j].lex)
       THEN StatementErr("ExpectedIdentifier", toks[j].span.start)
       ELSE LET r == path_parse(source, toks, j, toks[j].span.start)
            IN IF IsSome(r.err) THEN StatementErr(Unwrap(r.err), Unwrap(r.byte))
               ELSE IF ~IsSome(r.path)
               THEN StatementErr("EmptyPath", toks[j].span.start)
               ELSE LET a == arguments_parse(source, toks, r.next, <<>>)
                    IN IF IsSome(a.err)
                       THEN StatementErr(Unwrap(a.err), Unwrap(a.byte))
                       ELSE StatementOk(
                              [NewCall(partial, params.start, params.end)
                                 EXCEPT !.target = Unwrap(r.path),
                                        !.arguments = a.args,
                                        !.escaped = escaped])

----------------------------------------------------------------------------
(* The tree: src/src/lexer/ast.rs *)

Text(span) == [type |-> "Text", span |-> span]

Statement(call) == [type |-> "Statement", call |-> call]

\* Block::new
NewBlock(kind, open) ==
    [type |-> "Block", kind |-> kind, nodes |-> <<>>, open |-> open,
     close |-> None, call |-> None]

\* Block::open
block_open(source, n) ==
    IF IsSome(n.open) THEN SpanStr(source, Unwrap(n.open)) ELSE <<>>

\* Block::close
block_close(source, n) ==
    IF IsSome(n.close) THEN SpanStr(source, Unwrap(n.close)) ELSE <<>>

\* Block::between
block_between(source, n) ==
    LET open == IF IsSome(n.open) THEN Unwrap(n.open) ELSE Span(0, 0)
        close == IF IsSome(n.close) THEN Unwrap(n.close)
                 ELSE Span(0, Len(source))
    IN Slice(source, open.end, close.start)

\* Block::as_str
block_as_str(source, n) ==
    IF n.kind = "Root" THEN source
    ELSE LET open == IF IsSome(n.open) THEN Unwrap(n.open) ELSE Span(0, 0)
             close == IF IsSome(n.close) THEN Unwrap(n.close)
                      ELSE Span(0, Len(source))
         IN Slice(source, open.start, close.end)

\* Call::as_str
call_as_str(source, call) == Slice(source, call.open.start, call.close.end)

\* Text::as_str
text_as_str(source, n) == SpanStr(source, n.span)

\* Node::as_str
node_as_str(source, n) ==
    CASE n.type = "Text" -> text_as_str(source, n)
      [] n.type = "Statement" -> call_as_str(source, n.call)
      [] n.type = "Block" -> block_as_str(source, n)

\* Call::open, Call::close
call_open(source, call) == SpanStr(source, call.open)

call_close(source, call) == SpanStr(source, call.close)

\* Node::trim_before
trim_before(source, n) ==
    CASE n.type = "Text" -> FALSE
      [] n.type = "Statement" -> EndsWith(call_open(source, n.call), WHITESPACE)
      [] n.type = "Block" ->
            LET open == block_open(source, n)
            IN Len(open) > 2 /\ WHITESPACE = Slice(open, 2, 3)

\* Node::trim_after
trim_after(source, n) ==
    CASE n.type = "Text" -> FALSE
      [] n.type = "Statement" ->
            StartsWith(call_close(source, n.call), WHITESPACE)
      [] n.type = "Block" ->
            LET open == block_open(source, n)
            IN Len(open) > 2 /\ WHITESPACE = Slice(open, 2, 3)

RECURSIVE node_fmt(_, _)
RECURSIVE nodes_fmt(_, _, _)

\* `for t in self.nodes() { t.fmt(f)?; }` from the node at position `i` on
nodes_fmt(source, nodes, i) ==
    IF i > Len(nodes) THEN <<>>
    ELSE node_fmt(source, nodes[i]) \o nodes_fmt(source, nodes, i + 1)

\* impl Display for Block
block_fmt(source, n) ==
    IF n.kind = "Root" THEN source ELSE nodes_fmt(source, n.nodes, 1)

\* impl Display for Node, with those of Text and of Call
node_fmt(source, n) ==
    CASE n.type = "Text" -> text_as_str(source, n)
      [] n.type = "Statement" -> call_as_str(source, n.call)
      [] n.type = "Block" -> block_fmt(source, n)

\* The nodes of the tree under `n`, `n` included (Block::nodes, followed
\* down the tree).
RECURSIVE Nodes(_)
Nodes(n) ==
    {n} \cup (IF n.type = "Block"
              THEN UNION {Nodes(n.nodes[i]) : i \in 1..Len(n.nodes)}
              ELSE {})

----------------------------------------------------------------------------
(* The parser: src/src/parser/mod.rs, Parser::parse.  `status` is          *)
(* "running" inside the token loop, then "ok" (with `node`), "err" (with   *)
(* `err`) or "panic" (an unwrap of None).                                  *)

ParameterCache(context, start) ==
    [context |-> context, tokens |-> <<>>, start |-> start, end |-> Span(0, 0)]

\* The default file name of ParserOptions.
UNKNOWN == "unknown"

ErrorInfo(kind, file_name, line, byte, notes) ==
    [kind |-> kind, file_name |-> file_name, line |-> line, byte |-> byte,
     notes |-> notes]

Panic(p) == [p EXCEPT !.status = "panic"]

Fail(p, kind, notes) ==
    [p EXCEPT !.status = "err",
              !.err = Some(ErrorInfo(kind, p.file_name, p.line, p.byte, notes))]

\* Block::push on the block on top of the stack
push_node(stack, node) ==
    [stack EXCEPT ![Len(stack)].nodes = Append(@, node)]

\* `if let Some(txt) = text.take() { stack.last_mut().unwrap().push(txt) }`
take_text(p) ==
    IF ~IsSome(p.text) THEN p
    ELSE IF p.stack = <<>> THEN Panic(p)
    ELSE [p EXCEPT !.stack = push_node(@, Unwrap(p.text)), !.text = None]

\* Parser::enter_stack
enter_stack(p, block) ==
    LET p1 == IF IsSome(p.text)
              THEN [p EXCEPT !.text = None,
                             !.stack = IF @ = <<>> THEN @
                                       ELSE push_node(@, Unwrap(p.text))]
              ELSE p
    IN [p1 EXCEPT !.stack = Append(@, block)]

\* Parser::exit_stack
exit_stack(p, close) ==
    IF p.stack = <<>> THEN Panic(p)
    ELSE LET n == Len(p.stack)
             s1 == IF IsSome(p.text) THEN push_node(p.stack, Unwrap(p.text))
                   ELSE p.stack
             block == [s1[n] EXCEPT !.close = Some(close)]
             rest == SubSeq(s1, 1, n - 1)
         IN IF rest = <<>>
            THEN Panic([p EXCEPT !.text = None, !.stack = rest])
            ELSE [p EXCEPT !.text = None, !.stack = push_node(rest, block)]

NewParser ==
    enter_stack(
        [source |-> <<>>, file_name |-> UNKNOWN, line |-> 0, byte |-> 0,
         line_of |-> <<>>, stack |-> <<>>,
         text |-> None, parameters |-> None, status |-> "running",
         err |-> None, node |-> None],
        NewBlock("Root", None))

\* The arm for a Parameters::End token with the position that
\* statement::parse reports left out of the parse state.
parameters_end_keep_byte(p, span) ==
    IF ~IsSome(p.parameters) THEN p
    ELSE LET params == [Unwrap(p.parameters) EXCEPT !.end = span]
             r == statement_parse(p.source, params)
             p1 == [p EXCEPT !.parameters = None]
         IN IF IsSome(r.err) THEN Fail(p1, Unwrap(r.err), <<>>)
            ELSE IF p1.stack = <<>> THEN Panic(p1)
            ELSE IF params.context = "Statement"
            THEN [p1 EXCEPT !.stack = push_node(@, Statement(Unwrap(r.call)))]
            ELSE [p1 EXCEPT !.stack[Len(p1.stack)].call = r.call]

\* The arm of `match t` for a Parameters::End token.
parameters_end(p, span) ==
    IF ~IsSome(p.parameters) THEN p
    ELSE LET params == [Unwrap(p.parameters) EXCEPT !.end = span]
             r == statement_parse(p.source, params)
             p1 == [p EXCEPT !.parameters = None]
         IN IF IsSome(r.err)
            THEN Fail([p1 EXCEPT !.byte = Unwrap(r.byte)], Unwrap(r.err), <<>>)
            ELSE IF p1.stack = <<>> THEN Panic(p1)
            ELSE IF params.context = "Statement"
            THEN [p1 EXCEPT !.stack = push_node(@, Statement(Unwrap(r.call)))]
            ELSE [p1 EXCEPT !.stack[Len(p1.stack)].call = r.call]

\* The arm of `match t` for a StringLiteral::Newline token.
string_literal_newline(p) ==
    LET p1 == IF IsSome(p.parameters)
                 /\ Unwrap(p.parameters).tokens # <<>>
              THEN LET toks == Unwrap(p.parameters).tokens
                   IN [p EXCEPT !.byte = toks[Len(toks)].span.end - 1]
              ELSE p
    IN Fail([p1 EXCEPT !.parameters = None], "StringLiteralNewline", <<>>)

cache_token(p, lex, sub, span) ==
    IF IsSome(p.parameters)
    THEN [p EXCEPT !.parameters[1].tokens = Append(@, ParamTok(lex, sub, span))]
    ELSE p

\* `match t { ... }`
parse_match(p, t, span) ==
    CASE t.cat = "Block" /\ t.lex = "StartRawBlock" ->
            enter_stack(p, NewBlock("RawBlock", Some(span)))
      [] t.cat = "Block" /\ t.lex = "StartRawComment" ->
            enter_stack(p, NewBlock("RawComment", Some(span)))
      [] t.cat = "Block" /\ t.lex = "StartRawStatement" ->
            enter_stack(p, NewBlock("RawStatement", Some(span)))
      [] t.cat = "Block" /\ t.lex = "StartComment" ->
            enter_stack(p, NewBlock("Comment", Some(span)))
      [] t.cat = "Block" /\ t.lex = "StartBlockScope" ->
            enter_stack(
                [p EXCEPT !.parameters = Some(ParameterCache("Block", span))],
                NewBlock("Scoped", Some(span)))
      [] t.cat = "Block" /\ t.lex = "EndBlockScope" -> exit_stack(p, span)
      [] t.cat = "Block" /\ t.lex = "StartStatement" ->
            [p EXCEPT !.parameters = Some(ParameterCache("Statement", span))]
      [] t.cat \in {"RawBlock", "RawComment", "RawStatement", "Comment"}
            /\ t.lex = "End" -> exit_stack(p, span)
      [] t.cat = "Parameters" /\ t.lex = "End" -> parameters_end(p, span)
      [] t.cat = "Parameters" /\ t.lex # "End" ->
            cache_token(p, t.lex, "", span)
      [] t.cat = "StringLiteral" /\ t.lex = "Newline" ->
            string_literal_newline(p)
      [] t.cat = "StringLiteral" /\ t.lex # "Newline" ->
            cache_token(p, "StringToken", t.lex, span)
      [] OTHER -> p

\* The token loop with a text token starting a Text of its own, the text
\* before it forgotten.
parse_token_no_merge(p, t) ==
    LET span == Span(Len(p.source), Len(p.source) + Len(t.s))
        p0 == [p EXCEPT !.source = @ \o t.s]
        p1 == IF is_text(t) THEN [p0 EXCEPT !.text = Some(Text(span))]
              ELSE take_text(p0)
    IN IF p1.status # "running" THEN p1
       ELSE IF is_newline(t) THEN [p1 EXCEPT !.line = @ + 1]
       ELSE parse_match(p1, t, span)

\* The token loop with the newline tokens skipped and not counted.
parse_token_no_line(p, t) ==
    LET span == Span(Len(p.source), Len(p.source) + Len(t.s))
        p0 == [p EXCEPT !.source = @ \o t.s]
        p1 == IF is_text(t)
              THEN [p0 EXCEPT !.text =
                      Some(Text(Span(
                          IF IsSome(p0.text) THEN Unwrap(p0.text).span.start
                          ELSE span.start,
                          span.end)))]
              ELSE take_text(p0)
    IN IF p1.status # "running" THEN p1
       ELSE IF is_newline(t) THEN p1
       ELSE parse_match(p1, t, span)

\* One turn of `while let Some(t) = self.lexer.next()`.
parse_token(p, t) ==
    LET span == Span(Len(p.source), Len(p.source) + Len(t.s))
        p0 == [p EXCEPT !.source = @ \o t.s]
        p1 == IF is_text(t)
              THEN [p0 EXCEPT !.text =
                      Some(Text(Span(
                          IF IsSome(p0.text) THEN Unwrap(p0.text).span.start
                          ELSE span.start,
                          span.end)))]
              ELSE take_text(p0)
    IN IF p1.status # "running" THEN p1
       ELSE IF is_newline(t) THEN [p1 EXCEPT !.line = @ + 1]
       ELSE parse_match(p1, t, span)

\* The code after the token loop: the lexer has no more tokens.
parse_end(p) ==
    IF IsSome(p.parameters)
    THEN LET params == Unwrap(p.parameters)
             n == Len(params.tokens)
             p1 == IF n > 0
                   THEN [p EXCEPT !.byte = params.tokens[n].span.end - 1]
                   ELSE p
             rest == IF n > 0 THEN SubSeq(params.tokens, 1, n - 1) ELSE <<>>
             notes == IF \E i \in 1..Len(rest) : rest[i].lex = "StringLiteral"
                      THEN <<"string literal was not closed">>
                      ELSE <<>>
         IN Fail([p1 EXCEPT !.parameters = None], "OpenStatement", notes)
    ELSE LET p1 == take_text(p)
         IN IF p1.status # "running" THEN p1
            ELSE IF p1.stack = <<>> THEN Panic(p1)
            ELSE [p1 EXCEPT !.status = "ok", !.node = Some(p1.stack[1]),
                            !.stack = IF Len(@) = 1 THEN <<>>
                                      ELSE <<@[Len(@)]>>
                                           \o SubSeq(@, 2, Len(@) - 1)]

\* The line ranges of the nodes (Lines of parser::ast, spec.md 4.B): for
\* each byte of the source, `line_of` keeps the line counter of the parse
\* state when the token that holds the byte was read.
read_lines(p, line, t) ==
    [p EXCEPT !.line_of = @ \o [i \in 1..Len(t.s) |-> line]]

\* The range [start_line, end_line) recorded for a node that spans `span`:
\* from the line counter at its first token to one past the counter at its
\* last.
lines(p, span) ==
    [start |-> p.line_of[span.start + 1], end |-> p.line_of[span.end] + 1]

----------------------------------------------------------------------------
(* Values, the registry and the output *)

\* json::find_parts: walk object fields; a miss is None.
RECURSIVE find_parts(_, _)
find_parts(parts, value) ==
    IF parts = <<>> THEN Some(value)
    ELSE IF value.t = "Object" /\ Head(parts) \in DOMAIN value.f
    THEN find_parts(Tail(parts), value.f[Head(parts)])
    ELSE None

RECURSIVE to_json(_)
to_json(value) ==
    CASE value.t = "String" -> <<"\"">> \o value.s \o <<"\"">>
      [] value.t = "Null" -> <<"n", "u", "l", "l">>
      [] value.t = "Object" ->
            LET RECURSIVE members(_)
                members(keys) ==
                    IF keys = {} THEN <<>>
                    ELSE LET k == CHOOSE k \in keys : TRUE
                             m == <<"\"">> \o k \o <<"\"", ":">>
                                  \o to_json(value.f[k])
                         IN IF keys = {k} THEN m
                            ELSE m \o <<",">> \o members(keys \ {k})
            IN <<"{">> \o members(DOMAIN value.f) \o <<"}">>

\* json::stringify: a string as its text, null as nothing, the rest as JSON.
stringify(value) ==
    CASE value.t = "String" -> value.s
      [] value.t = "Null" -> <<>>
      [] OTHER -> to_json(value)

escape_char(c) ==
    CASE c = "&" -> <<"&", "a", "m", "p", ";">>
      [] c = "<" -> <<"&", "l", "t", ";">>
      [] c = ">" -> <<"&", "g", "t", ";">>
      [] c = "\"" -> <<"&", "q", "u", "o", "t", ";">>
      [] c = "'" -> <<"&", "#", "x", "2", "7", ";">>
      [] OTHER -> <<c>>

\* escape::html_escape, the default escape function
RECURSIVE html_escape(_)
html_escape(s) ==
    IF s = <<>> THEN <<>> ELSE escape_char(Head(s)) \o html_escape(Tail(s))

\* Registry::get_helper reads the value helpers.
get_helper(registry, name) ==
    IF name \in DOMAIN registry.helpers THEN Some(registry.helpers[name])
    ELSE None

\* Registry::builtins: log is a helper, with a block helper.
BuiltinRegistry ==
    [helpers |-> (Log :> "Log"), block_helpers |-> (With :> "With")]

\* Registry::register_helper of FooHelper (tests/helper.rs).
FooRegistry ==
    [BuiltinRegistry EXCEPT !.helpers = (Foo :> "Foo") @@ @]

\* HelperRegistry::builtins: one collection of helpers, `with` among them.
HelperRegistry ==
    [helpers |-> (Log :> "Log") @@ (With :> "With") @@ (Foo :> "Foo"),
     block_helpers |-> <<>>]

DataFoo ==
    JsonObject((Foo :> JsonString(<<"q", "u", "x">>))
               @@ (X :> JsonString(<<"<", "b", ">">>))
               @@ (U :> JsonObject((NameKey :> JsonString(<<"A">>)))))

DataSpaced == JsonObject((Foo :> JsonString(<<" ", "<", " ">>)))

\* An Output: `budget` is None for a sink that never fails (StringOutput)
\* and Some(n) for a stream that takes n more writes and then fails.
Writer(budget) == [buf |-> <<>>, budget |-> budget]


----------------------------------------------------------------------------
(* The render session: src/src/render.rs.  A session `rc` holds the fields *)
(* of Render; `err` is the Err of the call that just returned (None for    *)
(* Ok), `ret` its Ok value.  `raised`, `visited` and `outputs` are         *)
(* history: the errors raised so far, each with the length of the output   *)
(* at that time, the nodes render_node has been called for, and what each  *)
(* Text, RawBlock, RawStatement or Statement node has written.             *)

\* Render::new
NewRender(source, registry, root, writer) ==
    [source |-> source, registry |-> registry, root |-> root,
     writer |-> writer, scopes |-> <<>>, callee |-> None,
     trim_start |-> FALSE, trim_end |-> FALSE, prev_node |-> None,
     next_node |-> None, template |-> None, err |-> None, ret |-> None,
     raised |-> <<>>, visited |-> <<>>, outputs |-> <<>>, invoked |-> <<>>]

Raise(rc, e) ==
    [rc EXCEPT !.err = Some(e),
               !.raised = Append(@, [error |-> e,
                                     written |-> Len(rc.writer.buf)])]

Failed(rc) == IsSome(rc.err)

\* Output::write_str
writer_write(rc, s) ==
    IF rc.writer.budget = Some(0) THEN Raise(rc, [kind |-> "Io"])
    ELSE [rc EXCEPT !.writer.buf = @ \o s,
                    !.writer.budget = IF IsSome(@) THEN Some(Unwrap(@) - 1)
                                      ELSE @]

\* write_str with the escape function applied to everything written.
write_str_escape_all(rc, s, escape) ==
    LET val1 == IF rc.trim_start THEN TrimStart(s) ELSE s
        val == IF rc.trim_end THEN TrimEnd(val1) ELSE val1
    IN IF val = <<>> THEN rc ELSE writer_write(rc, html_escape(val))

\* Render::write_str
write_str(rc, s, escape) ==
    LET val1 == IF rc.trim_start THEN TrimStart(s) ELSE s
        val == IF rc.trim_end THEN TrimEnd(val1) ELSE val1
    IN IF val = <<>> THEN rc
       ELSE IF escape THEN writer_write(rc, html_escape(val))
       ELSE writer_write(rc, val)

\* Scope::new
NewScope == [value |-> None, locals |-> <<>>]

\* Render::push_scope
push_scope(rc) == [rc EXCEPT !.scopes = Append(@, NewScope)]

\* Render::pop_scope
pop_scope(rc) ==
    [rc EXCEPT !.scopes = IF @ = <<>> THEN @ ELSE SubSeq(@, 1, Len(@) - 1)]

\* Scope::set_base_value on Render::scope_mut
set_base_value(rc, value) ==
    IF rc.scopes = <<>> THEN rc
    ELSE [rc EXCEPT !.scopes[Len(rc.scopes)].value = Some(value)]

component_strs(source, comps) ==
    [i \in 1..Len(comps) |-> SpanStr(source, comps[i].span)]

\* Render::lookup
lookup(source, path, root, scopes) ==
    IF path.root
    THEN find_parts(Tail(component_strs(source, path.components)), root)
    ELSE IF path.explicit /\ Len(path.components) = 1
    THEN IF scopes # <<>> /\ IsSome(scopes[Len(scopes)].value)
         THEN scopes[Len(scopes)].value
         ELSE Some(root)
    ELSE IF is_simple(path)
    THEN IF scopes # <<>> THEN None
         ELSE find_parts(component_strs(source, path.components), root)
    ELSE None

\* Render::arguments
arguments(rc) ==
    IF IsSome(rc.callee)
    THEN LET args == Unwrap(rc.callee).arguments
         IN [i \in 1..Len(args) |->
               IF args[i].kind = "Json" THEN args[i].value ELSE JsonNull]
    ELSE <<>>

\* Render::hash
hash(rc) ==
    IF IsSome(rc.callee)
    THEN LET h == Unwrap(rc.callee).hash
         IN [k \in DOMAIN h |->
               IF h[k].kind = "Json" THEN h[k].value ELSE JsonNull]
    ELSE <<>>

\* usize::MAX, here the largest integer of the arithmetic at hand: it is
\* only compared with the number of arguments of a call.
usize_MAX == 2147483647

\* Context::arity with the range taken as half-open.
arity_half_open(rc, name, lo, hi) ==
    LET n == Len(arguments(rc))
    IN IF lo = hi
       THEN IF n # lo
            THEN Raise(rc, [kind |-> "ArityExact", name |-> name, n |-> lo])
            ELSE rc
       ELSE IF n < lo \/ n >= hi
            THEN Raise(rc, [kind |-> "ArityRange", name |-> name,
                            lo |-> lo, hi |-> hi])
            ELSE rc

\* Context::arity
arity(rc, name, lo, hi) ==
    LET n == Len(arguments(rc))
    IN IF lo = hi
       THEN IF n # lo
            THEN Raise(rc, [kind |-> "ArityExact", name |-> name, n |-> lo])
            ELSE rc
       ELSE IF n < lo \/ n > hi
            THEN Raise(rc, [kind |-> "ArityRange", name |-> name,
                            lo |-> lo, hi |-> hi])
            ELSE rc

RECURSIVE render_node(_, _)
RECURSIVE document(_, _, _)
RECURSIVE helper_call(_, _, _)

\* Render::template, as a block helper uses it: the nodes of the block in
\* order, with the look-around of a Document.
template(rc, node) ==
    document([rc EXCEPT !.next_node =
                 IF node.nodes = <<>> THEN None ELSE Some(node.nodes[1])],
             node.nodes, 2)

\* FooHelper::call (tests/helper.rs)
foo_call(rc) == [rc EXCEPT !.ret = Some(JsonString(Bar))]

\* `Ok(None)` of the call `r`, or its Err.
ok_none(r) == IF Failed(r) THEN r ELSE [r EXCEPT !.ret = None]

\* LogHelper::call
log_call(rc, name) == ok_none(arity(rc, name, 1, usize_MAX))

\* With::call after `rc.template(template)?`
with_return(r) ==
    IF Failed(r) THEN r ELSE [pop_scope(r) EXCEPT !.ret = None]

\* With::call after the arity check
with_body(r) ==
    IF Failed(r) THEN r
    ELSE IF ~IsSome(r.template) THEN [r EXCEPT !.ret = None]
    ELSE with_return(
             template(set_base_value(push_scope(r), arguments(r)[1]),
                      Unwrap(r.template)))

\* With::call
with_call(rc, name) == with_body(arity(rc, name, 1, 1))

\* Helper::call of the helper registered as `helper`
helper_call(rc, name, helper) ==
    CASE helper = "Foo" -> foo_call(rc)
      [] helper = "Log" -> log_call(rc, name)
      [] helper = "With" -> with_call(rc, name)

\* Render::invoke after `helper.call(self)?`
invoke_return(r) ==
    IF Failed(r) THEN r ELSE [r EXCEPT !.callee = None, !.ret = None]

\* What the helper is handed when it is called: the history entry of
\* Render::invoke, with what arguments() and hash() answer during the call.
Invocation(rc, call, name, helper) ==
    [name |-> name, helper |-> helper, template |-> rc.template,
     call |-> call,
     arguments |-> arguments([rc EXCEPT !.callee = Some(call)]),
     hash |-> hash([rc EXCEPT !.callee = Some(call)])]

\* Render::invoke
invoke(rc, call, name, helper) ==
    invoke_return(
        helper_call([rc EXCEPT !.callee = Some(call),
                               !.invoked = Append(@, Invocation(rc, call, name,
                                                                helper))],
                    name, helper))

\* Render::statement; `ret` is the value of EvalResult::Json.
statement(rc, call) ==
    IF call.partial THEN [rc EXCEPT !.ret = None]
    ELSE IF is_simple(call.target)
            /\ IsSome(get_helper(rc.registry,
                                 path_as_str(rc.source, call.target)))
    THEN ok_none(invoke(rc, call, path_as_str(rc.source, call.target),
                        Unwrap(get_helper(rc.registry,
                                   path_as_str(rc.source, call.target)))))
    ELSE [rc EXCEPT !.ret =
            lookup(rc.source, call.target, rc.root, rc.scopes)]

\* Render::block
block(rc, node) ==
    IF Unwrap(node.call).partial THEN [rc EXCEPT !.ret = None]
    ELSE IF is_simple(Unwrap(node.call).target)
            /\ IsSome(get_helper(rc.registry,
                          path_as_str(rc.source, Unwrap(node.call).target)))
    THEN ok_none(invoke([rc EXCEPT !.template = Some(node)],
                        Unwrap(node.call),
                        path_as_str(rc.source, Unwrap(node.call).target),
                        Unwrap(get_helper(rc.registry,
                            path_as_str(rc.source,
                                        Unwrap(node.call).target)))))
    ELSE [rc EXCEPT !.ret =
            lookup(rc.source, Unwrap(node.call).target, rc.root, rc.scopes)]

\* The loop of the Document arm after `self.render_node(node)?`.
document_next(r, nodes, i) ==
    IF Failed(r) THEN r ELSE document(r, nodes, i + 1)

\* The loop of the Document arm: `i` is the position of the iterator `it`.
document(rc, nodes, i) ==
    IF ~IsSome(rc.next_node) THEN rc
    ELSE document_next(
             render_node([rc EXCEPT !.next_node =
                             IF i <= Len(nodes) THEN Some(nodes[i]) ELSE None],
                         Unwrap(rc.next_node)),
             nodes, i)

\* The arm of `match node` for a Statement, after `self.statement(call)?`.
write_value(r, call) ==
    IF Failed(r) THEN r
    ELSE IF IsSome(r.ret)
    THEN write_str(r, stringify(Unwrap(r.ret)), call.escaped)
    ELSE r

\* The arm of `match node` for a Statement.
render_statement(rc, call) == write_value(statement(rc, call), call)

\* The arm of `match node` for a Block: the Result of block() is dropped.
render_block(rc, node) == [block(rc, node) EXCEPT !.err = None]

\* Render::render_node, the trim flags set from the nodes around.
render_enter(rc, node) ==
    [rc EXCEPT
       !.trim_start = IF IsSome(rc.prev_node)
                      THEN trim_after(rc.source, Unwrap(rc.prev_node))
                      ELSE FALSE,
       !.trim_end = IF IsSome(rc.next_node)
                    THEN trim_before(rc.source, Unwrap(rc.next_node))
                    ELSE FALSE,
       !.visited = Append(@, node)]

\* Render::render_node, `match node`.
render_match(rc, node) ==
    CASE node.type = "Text" ->
            write_str(rc, SpanStr(rc.source, node.span), FALSE)
      [] node.type = "Statement" -> render_statement(rc, node.call)
      [] node.type = "Block" /\ node.kind = "RawBlock" ->
            write_str(rc, block_between(rc.source, node), FALSE)
      [] node.type = "Block" /\ node.kind = "RawStatement" ->
            write_str(rc, Tail(block_as_str(rc.source, node)), FALSE)
      [] node.type = "Block" /\ node.kind \in {"RawComment", "Comment"} -> rc
      [] node.type = "Block" /\ node.kind = "Root" ->
            document([rc EXCEPT !.next_node =
                         IF node.nodes = <<>> THEN None
                         ELSE Some(node.nodes[1])],
                     node.nodes, 2)
      [] node.type = "Block" /\ node.kind = "Scoped" -> render_block(rc, node)

\* Render::render_node after the match: `written` is the length of the
\* output when the node was entered.
render_exit(r, node, written) ==
    IF Failed(r) THEN r
    ELSE [r EXCEPT
            !.prev_node = Some(node),
            !.outputs =
                IF node.type = "Block"
                   /\ node.kind \notin {"RawBlock", "RawStatement"}
                THEN @
                ELSE Append(@, [node |-> node,
                                out |-> Slice(r.writer.buf, written,
                                              Len(r.writer.buf))])]

\* Render::render_node
render_node(rc, node) ==
    render_exit(render_match(render_enter(rc, node), node), node,
                Len(rc.writer.buf))

----------------------------------------------------------------------------
(* The sources that are compiled and the sessions they are rendered in *)

RawText(s) == Tok("RawBlock", "Text", s)

\* Templates lexed whole, beside the sources of up to MaxTokens tokens.
Templates ==
    << \* `  {{~x~}}  `
       <<TText(<<" ", " ">>), TStatementTrim, TIdent(X), TEndTrim,
         TText(<<" ", " ">>)>>,
       \* ` a {{x}} b `
       <<TText(<<" ", "a", " ">>), TStatement, TIdent(X), TEnd,
         TText(<<" ", "b", " ">>)>>,
       \* `{{this.foo}}`
       <<TStatement, TThis, TDelim, TIdent(Foo), TEnd>>,
       \* `{{{{r}}}}{{x}}{{{{/r}}}}`
       <<TRawBlock, RawText(TXTag), TRawBlockEnd>>,
       \* `{{x~}}{{{{r}}}} a {{{{/r}}}}{{~x}}`
       <<TStatement, TIdent(X), TEndTrim, TRawBlock,
         RawText(<<" ", "a", " ">>), TRawBlockEnd, TStatementTrim, TIdent(X),
         TEnd>>,
       \* `{{x}}{{{x}}}`
       <<TStatement, TIdent(X), TEnd, TStatementRaw, TIdent(X), TEndRaw>>,
       \* `{{~#foo}}{{/foo}}  a`
       <<TBlockScopeTrim, TIdent(Foo), TEnd, TEndBlock(Foo),
         TText(<<" ", " ", "a">>)>>,
       \* `{{#foo}}{{/foo~}}  a`
       <<TBlockScope, TIdent(Foo), TEnd, TEndBlockTrim(Foo),
         TText(<<" ", " ", "a">>)>>,
       \* `{{#log}}a{{/log}}b`
       <<TBlockScope, TIdent(Log), TEnd, TText(<<"a">>), TEndBlock(Log),
         TText(<<"b">>)>>,
       \* `{{log}}b`
       <<TStatement, TIdent(Log), TEnd, TText(<<"b">>)>>,
       \* `{{#with u}}{{n}}{{/with}}b`
       <<TBlockScope, TIdent(With), TSpace, TIdent(U), TEnd, TStatement,
         TIdent(NameKey), TEnd, TEndBlock(With), TText(<<"b">>)>>,
       \* `{{#with "a"}}a{{/with}}b`
       <<TBlockScope, TIdent(With), TSpace, TQuote, TStrText(<<"a">>), TStrEnd,
         TEnd, TText(<<"a">>), TEndBlock(With), TText(<<"b">>)>>,
       \* `{{#with "a"}}{{log}}{{/with}}`
       <<TBlockScope, TIdent(With), TSpace, TQuote, TStrText(<<"a">>), TStrEnd,
         TEnd, TStatement, TIdent(Log), TEnd, TEndBlock(With)>>
    >>

Session(registry, root, budget) ==
    [registry |-> registry, root |-> root, budget |-> budget]

\* The registries, data and outputs a compiled template is rendered with.
Sessions ==
    {Session(BuiltinRegistry, DataFoo, None),
     Session(FooRegistry, DataFoo, None),
     Session(FooRegistry, DataSpaced, None),
     Session(HelperRegistry, DataFoo, None),
     Session(BuiltinRegistry, DataFoo, Some(1))}

\* A Document whose first child is a Document of the first k children of
\* `root`, followed by the other children of `root`.
Nested(root, k) ==
    [root EXCEPT !.nodes =
        <<[root EXCEPT !.nodes = SubSeq(root.nodes, 1, k)]>>
        \o SubSeq(root.nodes, k + 1, Len(root.nodes))]

Idle == [status |-> "idle", session |-> None, nested |-> None, node |-> None,
         rc |-> None]

\* What is known of a render call that has returned with the session `rc`.
Returned(session, nested, node, rc) ==
    [status |-> IF Failed(rc) THEN "err" ELSE "ok",
     session |-> Some(session), nested |-> nested, node |-> Some(node),
     rc |-> Some(rc)]

\* One render call: a session for `node`, and render_node on it.
Rendered(source, session, nested, node) ==
    Returned(session, nested, node,
             render_node(NewRender(source, session.registry, session.root,
                                   Writer(session.budget)),
                         node))

----------------------------------------------------------------------------
(* The maps of a registry: the helpers of src/src/helper/mod.rs and the    *)
(* templates of src/src/registry.rs, each a HashMap from a name to an      *)
(* entry.  `ops` is the sequence of the calls made, each with what it      *)
(* returned.                                                               *)

\* HashMap::insert, ::remove and ::get
hash_insert(m, k, v) ==
    [x \in DOMAIN m \cup {k} |-> IF x = k THEN v ELSE m[x]]

hash_remove(m, k) == [x \in DOMAIN m \ {k} |-> m[x]]

hash_get(m, k) == IF k \in DOMAIN m THEN Some(m[k]) ELSE None

\* The value `()` of a function that returns nothing: no entry.
Unit == <<>>

\* The names under which entries are registered, and the entries.
Names == {Foo, Bar}

Entries == {"first", "second"}

\* `Default::default()` of both maps
NewMaps == [helpers |-> <<>>, templates |-> <<>>, ops |-> <<>>]

Op(m, op, k, v, ret) ==
    [map |-> m, op |-> op, name |-> k, entry |-> v, ret |-> ret]

\* HelperRegistry::insert
insert(r, k, v) ==
    [r EXCEPT !.helpers = hash_insert(@, k, v),
              !.ops = Append(@, Op("helpers", "insert", k, Some(v), Unit))]

\* HelperRegistry::remove
remove(r, k) ==
    [r EXCEPT !.helpers = hash_remove(@, k),
              !.ops = Append(@, Op("helpers", "remove", k, None, Unit))]

\* HelperRegistry::get
get(r, k) ==
    [r EXCEPT !.ops = Append(@, Op("helpers", "get", k, None,
                                   hash_get(r.helpers, k)))]

\* Registry::register_template
register_template(r, k, v) ==
    [r EXCEPT !.templates = hash_insert(@, k, v),
              !.ops = Append(@, Op("templates", "insert", k, Some(v), Unit))]

\* Registry::unregister_template
unregister_template(r, k) ==
    [r EXCEPT !.templates = hash_remove(@, k),
              !.ops = Append(@, Op("templates", "remove", k, None,
                                   hash_get(r.templates, k)))]

\* Registry::get_template
get_template(r, k) ==
    [r EXCEPT !.ops = Append(@, Op("templates", "get", k, None,
        IF IsSome(hash_get(r.templates, k))
        THEN [ok |-> hash_get(r.templates, k), err |-> None]
        ELSE [ok |-> None,
              err |-> Some([kind |-> "TemplateNotFound", name |-> k])]))]

----------------------------------------------------------------------------
(* The path parser on its own: parse() of src/src/parser/path.rs reading   *)
(* the tokens of the lexer, from the first token of a path on.             *)

\* The tokens the lexer yields inside a tag, the end of the tag, and the
\* text after it.
PathTokens ==
    {TIdent(Foo), TDelim, TThis, TDotSlash, TParent, TLocal(AtIndex),
     TLocal(AtRoot), TSpace, TEnd, TText(<<"a">>)}

\* The token streams of the lexer that start with a path component: the
\* tokens of the tag up to its end, then text.
TokenStreams ==
    {ts \in UNION {[1..n -> PathTokens] : n \in 1..MaxPathTokens} :
        /\ is_path_component(ts[1].lex)
        /\ \A i \in 1..Len(ts) :
              ts[i].cat = "Block" <=> \E j \in 1..(i - 1) : ts[j] = TEnd}

\* The source that the tokens `ts` are the tokens of.
RECURSIVE SourceOf(_)
SourceOf(ts) == IF ts = <<>> THEN <<>> ELSE Head(ts).s \o SourceOf(Tail(ts))

\* The tokens `ts` with their spans, the first at the byte `at`.
RECURSIVE Spanned(_, _)
Spanned(ts, at) ==
    IF ts = <<>> THEN <<>>
    ELSE <<[cat |-> Head(ts).cat, lex |-> Head(ts).lex, sub |-> "",
            span |-> Span(at, at + Len(Head(ts).s))]>>
         \o Spanned(Tail(ts), at + Len(Head(ts).s))

\* A call of parse() that has not returned (`ret` is None) or has.
PathRun(ts) == [source |-> SourceOf(ts), toks |-> Spanned(ts, 0), ret |-> None]

NoPaths == [source |-> <<>>, toks |-> <<>>, ret |-> None]

----------------------------------------------------------------------------
(* The context of a helper's call: src/src/render/context.rs *)

\* The call of a helper with k arguments and the hash h.
Callee(k, h) ==
    [NewCall(FALSE, Span(0, 0), Span(0, 0)) EXCEPT
        !.arguments = [i \in 1..k |->
                         [kind |-> "Json", value |-> JsonString(<<"a">>)]],
        !.hash = h]

\* The hashes of the calls: none, and `foo="a"`.
Hashes == {<<>>, (Foo :> [kind |-> "Json", value |-> JsonString(<<"a">>)])}

\* Context::new for the helper `name`, in a render that is calling it;
\* `range` and `ret` are those of the arity assertion made.
NewContext(name, callee) ==
    [rc |-> [NewRender(<<>>, HelperRegistry, DataFoo, Writer(None)) EXCEPT
                !.callee = Some(callee)],
     name |-> name, range |-> None, ret |-> None]

NoContext == [rc |-> None, name |-> <<>>, range |-> None, ret |-> None]

----------------------------------------------------------------------------
(* The state machine *)

Init ==
    /\ lexer \in {[template |-> k, n |-> 0, mode |-> "Block", raw |-> FALSE] :
                    k \in 0..Len(Templates)}
    /\ parser = NewParser
    /\ render = Idle
    /\ printed = None
    /\ maps = NewMaps
    /\ assertion = NoContext
    /\ paths = NoPaths

\* The lexer yields a token and the parser's loop takes it.
ParseToken ==
    /\ parser.status = "running"
    /\ \E t \in IF lexer.template = 0
                THEN IF lexer.n < MaxTokens
                     THEN FreeTokens(lexer.mode, lexer.raw) ELSE {}
                ELSE IF lexer.n < Len(Templates[lexer.template])
                     THEN {Templates[lexer.template][lexer.n + 1]} ELSE {} :
          /\ parser' = read_lines(parse_token(parser, t), parser.line, t)
          /\ lexer' = [lexer EXCEPT
                         !.n = @ + 1,
                         !.mode = NextMode(@, t),
                         !.raw = IF t.lex = "StartStatement"
                                 THEN StartsWith(t.s, <<"{", "{", "{">>)
                                 ELSE @]
    /\ UNCHANGED <<render, printed, maps, assertion, paths>>

\* The lexer is at the end of the source and parse() returns.
ParseEnd ==
    /\ parser.status = "running"
    /\ lexer.template # 0 => lexer.n = Len(Templates[lexer.template])
    /\ parser' = parse_end(parser)
    /\ UNCHANGED <<lexer, render, printed, maps, assertion, paths>>

\* The compiled template is rendered.
Render ==
    /\ parser.status = "ok"
    /\ render.status = "idle"
    /\ \E session \in Sessions :
          render' = Rendered(parser.source, session, None, Unwrap(parser.node))
    /\ UNCHANGED <<lexer, parser, printed, maps, assertion, paths>>

\* A Document that holds the compiled nodes, some in a Document of their
\* own, is rendered.
RenderNested ==
    /\ parser.status = "ok"
    /\ render.status = "idle"
    /\ \E k \in 0..Len(Unwrap(parser.node).nodes) :
          render' = Rendered(parser.source,
                             Session(BuiltinRegistry, DataFoo, None), Some(k),
                             Nested(Unwrap(parser.node), k))
    /\ UNCHANGED <<lexer, parser, printed, maps, assertion, paths>>

Next == ParseToken \/ ParseEnd \/ Render \/ RenderNested

Spec == Init /\ [][Next]_vars

\* A node of the compiled tree is printed with `{}`.
Display ==
    /\ parser.status = "ok"
    /\ printed = None
    /\ \E n \in Nodes(Unwrap(parser.node)) :
          printed' = Some([node |-> n, out |-> node_fmt(parser.source, n)])
    /\ UNCHANGED <<lexer, parser, render, maps, assertion, paths>>

DisplayNext == ParseToken \/ ParseEnd \/ Display

\* Compiling a source and printing a node of the result.
DisplaySpec == Init /\ [][DisplayNext]_vars

\* A registry with empty maps; nothing is compiled or rendered.
RegistryInit ==
    /\ lexer = [template |-> 0, n |-> 0, mode |-> "Block", raw |-> FALSE]
    /\ parser = NewParser
    /\ render = Idle
    /\ printed = None
    /\ maps = NewMaps
    /\ assertion = NoContext
    /\ paths = NoPaths

Insert ==
    /\ Len(maps.ops) < MaxOps
    /\ \E k \in Names, v \in Entries : maps' = insert(maps, k, v)
    /\ UNCHANGED <<lexer, parser, render, printed, assertion, paths>>

Remove ==
    /\ Len(maps.ops) < MaxOps
    /\ \E k \in Names : maps' = remove(maps, k)
    /\ UNCHANGED <<lexer, parser, render, printed, assertion, paths>>

Get ==
    /\ Len(maps.ops) < MaxOps
    /\ \E k \in Names : maps' = get(maps, k)
    /\ UNCHANGED <<lexer, parser, render, printed, assertion, paths>>

RegisterTemplate ==
    /\ Len(maps.ops) < MaxOps
    /\ \E k \in Names, v \in Entries : maps' = register_template(maps, k, v)
    /\ UNCHANGED <<lexer, parser, render, printed, assertion, paths>>

UnregisterTemplate ==
    /\ Len(maps.ops) < MaxOps
    /\ \E k \in Names : maps' = unregister_template(maps, k)
    /\ UNCHANGED <<lexer, parser, render, printed, assertion, paths>>

GetTemplate ==
    /\ Len(maps.ops) < MaxOps
    /\ \E k \in Names : maps' = get_template(maps, k)
    /\ UNCHANGED <<lexer, parser, render, printed, assertion, paths>>

RegistryNext ==
    \/ Insert \/ Remove \/ Get
    \/ RegisterTemplate \/ UnregisterTemplate \/ GetTemplate

\* Sequences of operations on the maps of a registry.
RegistrySpec == RegistryInit /\ [][RegistryNext]_vars

\* A helper is called with some arguments and a hash.
ContextInit ==
    /\ lexer = [template |-> 0, n |-> 0, mode |-> "Block", raw |-> FALSE]
    /\ parser = NewParser
    /\ render = Idle
    /\ printed = None
    /\ maps = NewMaps
    /\ assertion \in {NewContext(name, Callee(k, h)) :
                        name \in {With, Log}, k \in 0..MaxArity, h \in Hashes}
    /\ paths = NoPaths

\* The helper asserts its arity: `ctx.arity(lo..hi)`.
Arity ==
    /\ assertion.ret = None
    /\ \E lo \in 0..MaxArity, hi \in 0..MaxArity :
          assertion' = [assertion EXCEPT
                          !.range = Some([start |-> lo, end |-> hi]),
                          !.ret = Some(arity(assertion.rc, assertion.name,
                                             lo, hi))]
    /\ UNCHANGED <<lexer, parser, render, printed, maps, paths>>

ContextNext == Arity

\* The arity assertions of helpers.
ContextSpec == ContextInit /\ [][ContextNext]_vars

\* The lexer is at the first token of a path.
PathInit ==
    /\ lexer = [template |-> 0, n |-> 0, mode |-> "Block", raw |-> FALSE]
    /\ parser = NewParser
    /\ render = Idle
    /\ printed = None
    /\ maps = NewMaps
    /\ assertion = NoContext
    /\ paths \in {PathRun(ts) : ts \in TokenStreams}

\* parse() of the path parser runs and returns.
ParsePath ==
    /\ paths.toks # <<>>
    /\ paths.ret = None
    /\ paths' = [paths EXCEPT
                   !.ret = Some(path_parse(paths.source, paths.toks, 1, 0))]
    /\ UNCHANGED <<lexer, parser, render, printed, maps, assertion>>

PathNext == ParsePath

\* The path parser on token streams of the lexer.
PathSpec == PathInit /\ [][PathNext]_vars

----------------------------------------------------------------------------
(* What the properties below speak of *)

Range(seq) == {seq[i] : i \in 1..Len(seq)}

\* The Scoped blocks of the tree under `node`, `node` included.
RECURSIVE ScopedBlocks(_)
ScopedBlocks(node) ==
    IF node.type # "Block" THEN {}
    ELSE (IF node.kind = "Scoped" THEN {node} ELSE {})
         \cup UNION {ScopedBlocks(node.nodes[i]) : i \in 1..Len(node.nodes)}

\* The name in a close tag `{{/name}}`, `{{~/name}}` or `{{/name~}}`.
close_tag_name(source, n) ==
    LET close == block_close(source, n)
        first == IF Slice(close, 2, 3) = WHITESPACE THEN 4 ELSE 3
        last == IF EndsWith(close, <<"~", "}", "}">>) THEN Len(close) - 3
                ELSE Len(close) - 2
    IN Slice(close, first, last)

Compiled == parser.status = "ok"

Root == Unwrap(parser.node)

\* render_node has returned for the compiled template itself.
RenderedTemplate == render.status # "idle" /\ render.nested = None

TheSession == Unwrap(render.session)

Rc == Unwrap(render.rc)

Buf == Rc.writer.buf

\* The template is one statement and nothing else.
OneStatement == Len(Root.nodes) = 1 /\ Root.nodes[1].type = "Statement"

TheCall == Root.nodes[1].call

----------------------------------------------------------------------------
(* C1 *)

\* C1: in every template that compiles, the name in the close tag of each
\* block equals the simple identifier of its open tag (a template whose
\* `{{/name}}` names another block does not compile).
C1_CloseNameEqualsOpenName ==
    Compiled =>
        \A b \in ScopedBlocks(Root) :
            IsSome(b.call) /\ IsSome(b.close) /\ is_simple(Unwrap(b.call).target)
                => close_tag_name(parser.source, b)
                     = path_as_str(parser.source, Unwrap(b.call).target)

----------------------------------------------------------------------------
(* C2 *)

\* C2: when the tokens end while a block is still open on the stack,
\* compilation returns an error; it never returns Ok with the open block
\* left out of the tree.  After an Ok the stack holds the blocks that were
\* open when the root was taken off it.
C2_UnclosedBlockIsAnError == Compiled => parser.stack = <<>>

----------------------------------------------------------------------------
(* C3 *)

\* C3: a statement whose target is a simple identifier naming a registered
\* helper writes the value the helper returns: with FooHelper registered
\* as `foo`, which returns "bar", `{{foo}}` renders "bar" whatever the data.
C3_HelperValueIsWritten ==
    (/\ RenderedTemplate
     /\ OneStatement
     /\ is_simple(TheCall.target)
     /\ get_helper(TheSession.registry,
                   path_as_str(parser.source, TheCall.target)) = Some("Foo"))
        => render.status = "ok" /\ Buf = Bar

----------------------------------------------------------------------------
(* C4 *)

\* The path is `this.foo` or `./foo`.
ExplicitFoo(path) ==
    /\ path.explicit
    /\ Len(path.components) = 2
    /\ path.components[2].kind = "Identifier"
    /\ SpanStr(parser.source, path.components[2].span) = Foo

\* C4: a path with an explicit this (`this.foo`, `./foo`) is resolved
\* against the data, never a helper: with the data {"foo": "qux"}, and a
\* helper `foo` registered or not, `{{this.foo}}` and `{{./foo}}` render
\* "qux".
C4_ExplicitThisReadsTheData ==
    (/\ RenderedTemplate
     /\ OneStatement
     /\ ExplicitFoo(TheCall.target)
     /\ TheSession.root = DataFoo)
        => render.status = "ok" /\ Buf = <<"q", "u", "x">>

----------------------------------------------------------------------------
(* C5 *)

\* C5: an error raised while a node is rendered, the error of a helper
\* called for a block included, ends the render there: the render call
\* returns that error and the output is what it was when the error was
\* raised.
C5_ErrorAbortsTheRender ==
    render.status # "idle" =>
        \A i \in 1..Len(Rc.raised) :
            /\ render.status = "err"
            /\ Rc.err = Some(Rc.raised[i].error)
            /\ Len(Buf) = Rc.raised[i].written

----------------------------------------------------------------------------
(* C6 *)

\* The node that was rendered.
Document == Unwrap(render.node)

\* The calls of render_node for the children of the Document, in the order
\* they were made.
ChildrenVisited ==
    SelectSeq(Rc.visited, LAMBDA n : n \in Range(Document.nodes))

\* C6: a render of a Document that returns Ok has rendered each child of
\* the Document once, in the order of the Document, the children after a
\* block or after a Document among the children too.
C6_ChildrenOnceInOrder ==
    render.status = "ok" => ChildrenVisited = Document.nodes

----------------------------------------------------------------------------
(* C7 *)

\* The source holds no tag: every tag starts with braces.
PlainText(source) == \A i \in 1..Len(source) : source[i] # "{"

\* C7 as stated: a source without tags compiles to one Text node that spans
\* the source, and rendering it writes the source.
C7_PlainTextIsOneTextNode ==
    /\ (PlainText(parser.source) /\ parser.status # "running")
          => /\ Compiled
             /\ Root.nodes = <<Text(Span(0, Len(parser.source)))>>
    /\ (PlainText(parser.source) /\ RenderedTemplate)
          => render.status = "ok" /\ Buf = parser.source

\* C7, amended: a source without tags that is not empty compiles to one
\* Text node that spans the source, the empty source to a tree without
\* nodes; rendering either writes the source.
C7_PlainTextRoundTrip ==
    /\ (PlainText(parser.source) /\ parser.status # "running")
          => /\ Compiled
             /\ Root.nodes = IF parser.source = <<>> THEN <<>>
                             ELSE <<Text(Span(0, Len(parser.source)))>>
    /\ (PlainText(parser.source) /\ RenderedTemplate)
          => render.status = "ok" /\ Buf = parser.source

\* Text of several tokens, a newline among them, was compiled and rendered.
C7_Witness ==
    /\ RenderedTemplate
    /\ PlainText(parser.source)
    /\ lexer.n >= 3
    /\ \E i \in 1..Len(parser.source) : parser.source[i] = "\n"
    /\ Buf = parser.source

----------------------------------------------------------------------------
(* C8 *)

\* The `~` before the closing braces of a node: of the tag of a statement,
\* of the close tag of a block.
TrimAfterFlag(source, n) ==
    CASE n.type = "Text" -> FALSE
      [] n.type = "Statement" ->
            StartsWith(call_close(source, n.call), WHITESPACE)
      [] n.type = "Block" ->
            EndsWith(block_close(source, n), <<"~", "}", "}">>)

\* The `~` after the opening braces of a node.
TrimBeforeFlag(source, n) ==
    CASE n.type = "Text" -> FALSE
      [] n.type = "Statement" ->
            EndsWith(call_open(source, n.call), WHITESPACE)
      [] n.type = "Block" ->
            StartsWith(block_open(source, n), <<"{", "{", "~">>)

\* What the i-th child of the tree, a Text, is to write.
TrimmedText(i) ==
    LET s == SpanStr(parser.source, Root.nodes[i].span)
        s1 == IF i > 1 /\ TrimAfterFlag(parser.source, Root.nodes[i - 1])
              THEN TrimStart(s) ELSE s
    IN IF i < Len(Root.nodes)
          /\ TrimBeforeFlag(parser.source, Root.nodes[i + 1])
       THEN TrimEnd(s1) ELSE s1

\* C8: a Text node is written without its leading whitespace exactly when
\* the sibling before it has the trim-after flag, without its trailing
\* whitespace exactly when the sibling after it has the trim-before flag,
\* and is otherwise unchanged.
C8_TextTrimmedByNeighbourFlags ==
    RenderedTemplate =>
        \A k \in 1..Len(Rc.outputs) : \A i \in 1..Len(Root.nodes) :
            (Root.nodes[i].type = "Text" /\ Rc.outputs[k].node = Root.nodes[i])
                => Rc.outputs[k].out = TrimmedText(i)

----------------------------------------------------------------------------
(* C9 *)

\* C9: a RawBlock writes the source between its open and its close tag,
\* unchanged, whatever the trim flags of its neighbours.
C9_RawBlockVerbatim ==
    render.status # "idle" =>
        \A k \in 1..Len(Rc.outputs) :
            LET n == Rc.outputs[k].node
            IN (n.type = "Block" /\ n.kind = "RawBlock")
                  => Rc.outputs[k].out = block_between(parser.source, n)

----------------------------------------------------------------------------
(* C10 *)

\* A string as write_str may trim it.
Trims(s) == {s, TrimStart(s), TrimEnd(s), TrimEnd(TrimStart(s))}

\* C10: what a Statement writes is the value it evaluates to, passed
\* through the escape function when the call is escaped and as it is when
\* the call is not.
C10_EscapedIffCallEscaped ==
    render.status # "idle" =>
        \A k \in 1..Len(Rc.outputs) :
            LET n == Rc.outputs[k].node
                value == statement(NewRender(parser.source,
                                             TheSession.registry,
                                             TheSession.root, Writer(None)),
                                   n.call).ret
                written == IF IsSome(value) THEN stringify(Unwrap(value))
                           ELSE <<>>
            IN (n.type = "Statement" /\ n \in Range(Root.nodes))
                  => Rc.outputs[k].out \in
                        {IF n.call.escaped THEN html_escape(v) ELSE v :
                            v \in Trims(written)}

\* `{{x}}{{{x}}}`: the value of x, "<b>", was written escaped and then
\* unescaped.
C10_Witness ==
    /\ RenderedTemplate
    /\ render.status = "ok"
    /\ Len(Root.nodes) = 2
    /\ Root.nodes[1].type = "Statement" /\ Root.nodes[1].call.escaped
    /\ Root.nodes[2].type = "Statement" /\ ~Root.nodes[2].call.escaped
    /\ Buf = <<"&", "l", "t", ";", "b", "&", "g", "t", ";", "<", "b", ">">>

----------------------------------------------------------------------------
(* C11 *)

\* C11: printing a node of a compiled tree with Display yields the source
\* the node spans, as_str(): the whole source for the root, and for a block
\* that is not the root its open tag, its content and its close tag.
C11_DisplayYieldsTheSource ==
    IsSome(printed) =>
        Unwrap(printed).out = node_as_str(parser.source, Unwrap(printed).node)

----------------------------------------------------------------------------
(* C12 *)

EmptyTag == <<"{", "{", "}", "}">>

----------------------------------------------------------------------------
(* C13 *)

\* The lexer has just met a raw newline inside a string literal: it is the
\* last byte of the source read so far.
NewlineInString ==
    /\ lexer.mode = "StringLiteral"
    /\ parser.source # <<>>
    /\ parser.source[Len(parser.source)] = "\n"

\* C13: a raw newline inside a string literal of a statement makes the
\* compilation fail with StringLiteralNewline, and the byte offset of the
\* error is the offset of the newline character.
C13_NewlineErrorAtTheNewline ==
    NewlineInString =>
        /\ parser.status = "err"
        /\ Unwrap(parser.err).kind = "StringLiteralNewline"
        /\ Unwrap(parser.err).byte = Len(parser.source) - 1

----------------------------------------------------------------------------
(* C14 *)

\* parse() has returned for a source that ends inside a statement or a
\* block-open tag, before its closing braces.
EndsInsideTag ==
    /\ parser.status # "running"
    /\ lexer.mode \in {"Parameters", "StringLiteral"}
    /\ ~NewlineInString

\* C14: a source that ends before the closing braces of a tag fails to
\* compile with OpenStatement, and the error carries the note "string
\* literal was not closed" exactly when the source ends inside a string
\* literal of that tag.
C14_OpenStatementNoteIffStringOpen ==
    EndsInsideTag =>
        /\ parser.status = "err"
        /\ Unwrap(parser.err).kind = "OpenStatement"
        /\ Unwrap(parser.err).notes =
              IF lexer.mode = "StringLiteral"
              THEN <<"string literal was not closed">>
              ELSE <<>>

----------------------------------------------------------------------------
(* C15 *)

\* C15: a path with `parents = n > 0` is resolved against the base value of
\* the scope n levels below the top of the scope stack, and when n exceeds
\* the depth of the stack the render fails with a render error; so a
\* template that is the one statement `{{../foo}}`, rendered with no scope
\* pushed, does not render.
C15_ParentsBeyondDepthIsAnError ==
    (RenderedTemplate /\ OneStatement /\ TheCall.target.parents > 0) =>
        /\ render.status = "err"
        /\ Buf = <<>>

----------------------------------------------------------------------------
(* C16 *)

\* The source compiled is `{{#with u}}{{n}}{{/with}}b`.
WithTemplate ==
    /\ lexer.template # 0
    /\ Templates[lexer.template] =
          <<TBlockScope, TIdent(With), TSpace, TIdent(U), TEnd, TStatement,
            TIdent(NameKey), TEnd, TEndBlock(With), TText(<<"b">>)>>

\* C16: a path that is not a helper, with no @root, this, parents or local,
\* is resolved against the base value of the topmost scope and then
\* against the data: with {"u": {"n": "A"}}, `{{#with u}}{{n}}{{/with}}b`
\* renders "Ab"; and such a path that is found nowhere renders nothing,
\* without an error.
C16_PathReadsTheScopeThenTheData ==
    /\ (/\ RenderedTemplate
        /\ WithTemplate
        /\ TheSession.root = DataFoo
        /\ TheSession.budget = None)
            => render.status = "ok" /\ Buf = <<"A", "b">>
    /\ (/\ RenderedTemplate
        /\ OneStatement
        /\ \A i \in 1..Len(TheCall.target.components) :
              TheCall.target.components[i].kind = "Identifier"
        /\ ~TheCall.target.root
        /\ ~TheCall.target.explicit
        /\ TheCall.target.parents = 0
        /\ ~IsSome(get_helper(TheSession.registry,
                              path_as_str(parser.source, TheCall.target)))
        /\ ~IsSome(find_parts(component_strs(parser.source,
                                             TheCall.target.components),
                              TheSession.root)))
            => render.status = "ok" /\ Buf = <<>>

----------------------------------------------------------------------------
(* C17 *)

\* The name of a call whose target is a simple path.
CallName(call) == path_as_str(parser.source, call.target)

\* C17: a block `{{#name ...}}` whose simple target is registered as a
\* block helper invokes that block helper with the block as its template,
\* and a statement `{{name ...}}` whose name is registered as a value
\* helper invokes that value helper.  The node is the first of the
\* template, so nothing can fail before it.
C17_DispatchByFormAndNamespace ==
    (RenderedTemplate /\ Root.nodes # <<>>) =>
        LET node == Root.nodes[1]
            registry == TheSession.registry
        IN /\ (/\ node.type = "Block"
               /\ node.kind = "Scoped"
               /\ IsSome(node.call)
               /\ is_simple(Unwrap(node.call).target)
               /\ CallName(Unwrap(node.call)) \in DOMAIN registry.block_helpers)
                  => /\ Rc.invoked # <<>>
                     /\ Rc.invoked[1].helper =
                          registry.block_helpers[CallName(Unwrap(node.call))]
                     /\ Rc.invoked[1].template = Some(node)
           /\ (/\ node.type = "Statement"
               /\ is_simple(node.call.target)
               /\ CallName(node.call) \in DOMAIN registry.helpers)
                  => /\ Rc.invoked # <<>>
                     /\ Rc.invoked[1].helper =
                          registry.helpers[CallName(node.call)]

----------------------------------------------------------------------------
(* C18 *)

\* The entry registered under `k` in the map `m` by the first `n` calls of
\* `ops` and not removed since, if there is one.
RECURSIVE Live(_, _, _, _)
Live(ops, n, m, k) ==
    IF n = 0 THEN None
    ELSE IF ops[n].map = m /\ ops[n].name = k /\ ops[n].op = "insert"
    THEN ops[n].entry
    ELSE IF ops[n].map = m /\ ops[n].name = k /\ ops[n].op = "remove"
    THEN None
    ELSE Live(ops, n - 1, m, k)

\* C18: after any sequence of insertions and removals on a map of the
\* registry (helpers, templates), a lookup of a name returns the entry most
\* recently registered under it and not removed since, and fails when there
\* is none (with TemplateNotFound of the name for templates); a removal
\* returns the entry that was stored under the name, or nothing when there
\* was none.
C18_LookupAndRemovalReturnTheLiveEntry ==
    \A i \in 1..Len(maps.ops) :
        LET o == maps.ops[i]
            live == Live(maps.ops, i - 1, o.map, o.name)
        IN /\ (o.op = "get" /\ o.map = "helpers") => o.ret = live
           /\ (o.op = "get" /\ o.map = "templates") =>
                 /\ o.ret.ok = live
                 /\ o.ret.err =
                       IF IsSome(live) THEN None
                       ELSE Some([kind |-> "TemplateNotFound",
                                  name |-> o.name])
           /\ o.op = "remove" => o.ret = live

----------------------------------------------------------------------------
(* C19 *)

\* C19: for a context with k arguments, arity(n..n) succeeds iff k = n and
\* otherwise returns ArityExact(name, n); arity(lo..hi) with lo < hi
\* succeeds iff lo <= k <= hi and otherwise returns ArityRange(name, lo,
\* hi); the arguments and the hash are the same after the assertion.
C19_ArityAssertion ==
    IsSome(assertion.ret) =>
        LET r == Unwrap(assertion.ret)
            k == Len(arguments(assertion.rc))
            lo == Unwrap(assertion.range).start
            hi == Unwrap(assertion.range).end
        IN /\ lo = hi =>
                 /\ ~Failed(r) <=> k = lo
                 /\ Failed(r) =>
                       Unwrap(r.err) = [kind |-> "ArityExact",
                                        name |-> assertion.name, n |-> lo]
           /\ lo < hi =>
                 /\ ~Failed(r) <=> (lo <= k /\ k <= hi)
                 /\ Failed(r) =>
                       Unwrap(r.err) = [kind |-> "ArityRange",
                                        name |-> assertion.name,
                                        lo |-> lo, hi |-> hi]
           /\ arguments(r) = arguments(assertion.rc)
           /\ hash(r) = hash(assertion.rc)

\* An assertion of a range succeeds with as many arguments as its upper
\* bound.
C19_Witness ==
    /\ IsSome(assertion.ret)
    /\ ~Failed(Unwrap(assertion.ret))
    /\ Unwrap(assertion.range).start < Unwrap(assertion.range).end
    /\ Len(arguments(assertion.rc)) = Unwrap(assertion.range).end
    /\ hash(assertion.rc) # <<>>

----------------------------------------------------------------------------
(* C20 *)

\* The number of newlines among the first `b` bytes of the source.
NewlinesBefore(b) ==
    Cardinality({i \in 1..b : parser.source[i] = "\n"})

\* The bytes of the source that a node of the tree spans.
NodeSpan(n) ==
    CASE n.type = "Text" -> n.span
      [] n.type = "Statement" -> Span(n.call.open.start, n.call.close.end)
      [] n.type = "Block" /\ n.kind = "Root" -> Span(0, Len(parser.source))
      [] OTHER -> Span(Unwrap(n.open).start, Unwrap(n.close).end)

\* The spans of the path components of the call of a node.
ComponentSpans(n) ==
    LET comps == IF n.type = "Statement" THEN n.call.target.components
                 ELSE IF n.type = "Block" /\ IsSome(n.call)
                 THEN Unwrap(n.call).target.components
                 ELSE <<>>
    IN {comps[i].span : i \in 1..Len(comps)}

\* The line range the claim gives a span: the newlines before its first
\* byte, and one more than the newlines before its last byte.
LineRange(span) ==
    [start |-> NewlinesBefore(span.start),
     end |-> NewlinesBefore(span.end - 1) + 1]

----------------------------------------------------------------------------
(* C21 *)

\* parse() has returned Ok with a path.
Parsed ==
    /\ IsSome(paths.ret)
    /\ ~IsSome(Unwrap(paths.ret).err)
    /\ IsSome(Unwrap(paths.ret).path)

ThePath == Unwrap(Unwrap(paths.ret).path)

\* C21: a parsed path is simple if and only if it has exactly one
\* component, that component is an Identifier, and no flag is set: root and
\* explicit are false and parents is 0.  So `../foo` is not simple.
C21_SimpleIffOneIdentifierNoFlags ==
    Parsed =>
        (is_simple(ThePath) <=>
            /\ Len(ThePath.components) = 1
            /\ ThePath.components[1].kind = "Identifier"
            /\ ~ThePath.root
            /\ ~ThePath.explicit
            /\ ThePath.parents = 0)

----------------------------------------------------------------------------
(* C22 *)

\* The lexemes of the tokens handed to parse().
Lexemes == [i \in 1..Len(paths.toks) |-> paths.toks[i].lex]

\* The number of `../` tokens the path starts with.
LeadingParents ==
    Cardinality({k \in 1..Len(Lexemes) :
                    \A j \in 1..k : Lexemes[j] = "ParentRef"})

PathReturned == IsSome(paths.ret)

\* The error parse() has returned, if any.
PathError == Unwrap(paths.ret).err

\* C22: a path returned with parents > 0 is not explicit and has no
\* LocalIdentifier component, and its parents count is the number of leading
\* `../` tokens; `this` or `./` right after the leading `../` is rejected
\* with UnexpectedPathParentWithExplicit, an `@name` with
\* UnexpectedPathParentWithLocal.
C22_ParentsExcludeExplicitAndLocal ==
    /\ Parsed =>
          /\ ThePath.parents = LeadingParents
          /\ ThePath.parents > 0 =>
                /\ ~ThePath.explicit
                /\ \A k \in 1..Len(ThePath.components) :
                      ThePath.components[k].kind # "LocalIdentifier"
    /\ (PathReturned /\ LeadingParents > 0 /\ LeadingParents < Len(Lexemes)) =>
          LET after == Lexemes[LeadingParents + 1]
          IN /\ after \in {"ExplicitThisKeyword", "ExplicitThisDotSlash"} =>
                  PathError = Some("UnexpectedPathParentWithExplicit")
             /\ after = "LocalIdentifier" =>
                  PathError = Some("UnexpectedPathParentWithLocal")

\* `../../foo` has been parsed.
C22_Witness ==
    /\ Parsed
    /\ ThePath.parents = 2
    /\ Len(ThePath.components) = 1

----------------------------------------------------------------------------
(* C23 *)

\* The lexemes of the qualifiers, and the error that rejects each after the
\* first component.
QualifierError ==
    [ExplicitThisKeyword |-> "UnexpectedPathExplicitThis",
     ExplicitThisDotSlash |-> "UnexpectedPathExplicitThis",
     ParentRef |-> "UnexpectedPathParent",
     LocalIdentifier |-> "UnexpectedPathLocal"]

QualifierKinds == {"ThisKeyword", "ThisDotSlash", "Parent", "LocalIdentifier"}

\* The tokens that can be the first component: the path components after
\* the leading `../` tokens.
ComponentTokens ==
    {k \in (LeadingParents + 1)..Len(Lexemes) : is_path_component(Lexemes[k])}

\* The first of them.
FirstComponent == CHOOSE f \in ComponentTokens : \A k \in ComponentTokens : f <= k

\* The first component is a token of the tag, and parse() takes it: it is no
\* delimiter at the start and no `this`, `./` or `@name` after `../`.
FirstComponentTaken ==
    /\ ComponentTokens # {}
    /\ LET f == FirstComponent
       IN /\ \A k \in 1..f : paths.toks[k].cat = "Parameters"
          /\ ~(f = 1 /\ Lexemes[f] = "PathDelimiter")
          /\ LeadingParents > 0 =>
                Lexemes[f] \notin {"ExplicitThisKeyword",
                                   "ExplicitThisDotSlash", "LocalIdentifier"}

\* The tokens right after the first component: the next one, or the one
\* after a delimiter.
AfterFirst ==
    LET f == FirstComponent
    IN {k \in (f + 1)..Len(Lexemes) :
           \/ k = f + 1
           \/ k = f + 2 /\ Lexemes[f + 1] = "PathDelimiter"
                        /\ Lexemes[f] \notin {"ExplicitThisDotSlash",
                                               "PathDelimiter"}}

\* C23: in a parsed path `this`, `./`, `../` and `@name` occur only as the
\* first component, and the root flag is set only when `@root` is the first
\* component; after the first component `this` and `./` are rejected with
\* UnexpectedPathExplicitThis, `../` with UnexpectedPathParent and `@name`
\* with UnexpectedPathLocal.
C23_QualifiersOnlyFirst ==
    /\ Parsed =>
          /\ \A k \in 2..Len(ThePath.components) :
                ThePath.components[k].kind \notin QualifierKinds
          /\ ThePath.root =>
                /\ ThePath.components[1].kind = "LocalIdentifier"
                /\ SpanStr(paths.source, ThePath.components[1].span) = AtRoot
    /\ (PathReturned /\ FirstComponentTaken) =>
          \A k \in AfterFirst :
             Lexemes[k] \in DOMAIN QualifierError =>
                PathError = Some(QualifierError[Lexemes[k]])

\* `foo.@index` has been rejected.
C23_Witness ==
    /\ PathReturned
    /\ Lexemes[1] = "Identifier"
    /\ Len(Lexemes) >= 3
    /\ Lexemes[2] = "PathDelimiter"
    /\ Lexemes[3] = "LocalIdentifier"
    /\ PathError = Some("UnexpectedPathLocal")

----------------------------------------------------------------------------
(* C24 *)

\* The tokens of the parsed path: from the first component to the token
\* before the one parse() hands back.
PathExtent == FirstComponent..(Unwrap(paths.ret).next - 1)

IsDelimiter(k) == Lexemes[k] = "PathDelimiter"

\* C24: a path is accepted only when its components and delimiters
\* alternate, the first and the last token being components (the component
\* after `./` has no delimiter before it); a delimiter at the start or
\* after a delimiter is rejected with UnexpectedPathDelimiter, a component
\* right after a component with ExpectedPathDelimiter.
C24_ComponentsAndDelimitersAlternate ==
    /\ Parsed =>
          /\ PathExtent # {}
          /\ \A k \in PathExtent :
                /\ (k = FirstComponent) => ~IsDelimiter(k)
                /\ (k + 1 \notin PathExtent) => ~IsDelimiter(k)
                /\ (k + 1 \in PathExtent) =>
                      IF Lexemes[k] = "ExplicitThisDotSlash"
                      THEN ~IsDelimiter(k + 1)
                      ELSE IsDelimiter(k) # IsDelimiter(k + 1)
    /\ PathReturned =>
          /\ IsDelimiter(1) => PathError = Some("UnexpectedPathDelimiter")
          /\ (/\ Len(Lexemes) >= 3 /\ Lexemes[1] = "Identifier"
              /\ IsDelimiter(2) /\ IsDelimiter(3)) =>
                PathError = Some("UnexpectedPathDelimiter")
          /\ (/\ Len(Lexemes) >= 2 /\ Lexemes[1] = "Identifier"
              /\ Lexemes[2] = "Identifier") =>
                PathError = Some("ExpectedPathDelimiter")

----------------------------------------------------------------------------
(* C25 *)

\* The tokens that end the tag.
EndTokens == {k \in 1..Len(Lexemes) : Lexemes[k] = "End"}

\* The tokens of the tag: those before its end.
InTag(k) == \A e \in EndTokens : k < e

\* C25: parse() returns Ok only with a path of at least one component, and
\* then hands back a token of the tag or its end, never one beyond it; a tag
\* with no component after its `../` tokens is reported as EmptyPath.
C25_NoSuccessWithoutAComponent ==
    PathReturned =>
        /\ ~IsSome(PathError) =>
              /\ IsSome(Unwrap(paths.ret).path)
              /\ ThePath.components # <<>>
              /\ \A e \in EndTokens : Unwrap(paths.ret).next <= e
        /\ (\A k \in ComponentTokens : ~InTag(k)) =>
              PathError = Some("EmptyPath")

----------------------------------------------------------------------------
(* C26 *)

\* C26: the scope stack is balanced around every block helper call, on
\* every exit path: a render starts with no scope, `with` is the only
\* helper that pushes one, and so when the render has returned, with Ok or
\* with an error, no scope is left on the stack.
C26_ScopesBalanced ==
    render.status # "idle" => Rc.scopes = <<>>

----------------------------------------------------------------------------
(* C27 *)

\* C27: when an invocation of a helper has returned, with a value or with
\* an error, the callee of the session is None; so it is None when the
\* render has returned, with Ok or with the error of a helper.
C27_CalleeClearedOnReturn ==
    render.status # "idle" => Rc.callee = None

----------------------------------------------------------------------------
(* C28 *)

\* C28: the arguments and the hash a helper is handed have the length, the
\* order and the keys of the parameters of its call; a JSON literal is
\* handed over as it is, and a path is handed over as the value it resolves
\* to: for the first helper called in a render, when no scope is pushed, a
\* simple path that names a field of the data is that field, not null.
C28_ArgumentsAreTheValuesOfTheParameters ==
    (render.status # "idle" /\ Rc.invoked # <<>>) =>
        LET e == Rc.invoked[1]
            params == e.call.arguments
        IN /\ Len(e.arguments) = Len(params)
           /\ DOMAIN e.hash = DOMAIN e.call.hash
           /\ \A i \in 1..Len(params) :
                 /\ params[i].kind = "Json" => e.arguments[i] = params[i].value
                 /\ (/\ params[i].kind = "Path"
                     /\ is_simple(params[i].path)
                     /\ IsSome(find_parts(
                            component_strs(parser.source,
                                           params[i].path.components),
                            Rc.root))) =>
                       Some(e.arguments[i]) =
                           find_parts(component_strs(parser.source,
                                          params[i].path.components),
                                      Rc.root)

----------------------------------------------------------------------------
(* C29 *)

\* The open blocks whose open tag has been parsed.
OpenedBlocks ==
    {i \in 1..Len(parser.stack) :
        parser.stack[i].kind = "Scoped" /\ IsSome(parser.stack[i].call)}

\* C29: a block whose open tag names neither a simple identifier nor a
\* partial is never opened: the parser returns the BlockTargetSubExpr
\* error for it, it does not abort and it does not go on.
C29_BlockTargetIsSimple ==
    /\ \A i \in OpenedBlocks :
          \/ is_simple(Unwrap(parser.stack[i].call).target)
          \/ Unwrap(parser.stack[i].call).partial
    /\ parser.status = "panic" => OpenedBlocks = {}

----------------------------------------------------------------------------
(* C30 *)

\* C30: while the parser reads tokens the root block is at the bottom of
\* its stack of blocks; a close token that arrives when only the root is
\* open leaves it there and is reported as the BlockNotOpen error: the
\* parser neither pops the root nor fails on an empty stack.
C30_RootStaysOnTheStack ==
    /\ parser.status # "panic"
    /\ parser.status \in {"running", "err"} =>
          /\ parser.stack # <<>>
          /\ parser.stack[1].kind = "Root"

====
